---- MODULE Spec2Model ----
(***************************************************************************)
(* Model of .github/workflows/para2github.py: the Paratranz download        *)
(* script that reconciles translation entries with the en_us.json key set,  *)
(* aggregates FTB Quests descriptions and renders them as SNBT text.        *)
(*                                                                         *)
(* Python values are modelled as follows.                                   *)
(*   str            a TLA+ string                                           *)
(*   dict           a sequence of records [k |-> key, v |-> value] with      *)
(*                  pairwise distinct keys (insertion order is kept)         *)
(*   list           a sequence                                               *)
(*   optional field the empty sequence (absent) or a one-element sequence    *)
(***************************************************************************)
EXTENDS Integers, Sequences, FiniteSets, TLC

VARIABLES pc,             \* position of the running script
          translations,   \* translate: the items fetched for one file
          keys, values,   \* translate: its two result lists
          zh_cn_dict,     \* save_translation: the dictionary passed in
          source_json,    \* save_translation: the en_us.json beside the output
          source_keys_set,\* save_translation: set(source_json.keys()) as iterated
          file_out,       \* save_translation: the document dumped to zh_cn.json
          origin_en_us,   \* normal_json2_ftb_desc: its argument
          snbt_dict,      \* normal_json2_ftb_desc: its outcome
          nbtlib,         \* the behaviour of the installed nbtlib package
          json_data,      \* json_to_nbt: its argument
          nbt_data,       \* json_to_nbt: its outcome
          formatted_snbt_string,  \* format_snbt: its result
          source_files,   \* main: the JSON documents under Source/
          file_path_list, \* main: the names get_files() listed
          cursor,         \* main: the position of the loop in file_path_list
          zh_cn_list,     \* main: the dictionaries processed so far
          ftbquests_dict, \* main: the merged quest translations
          lang_files,     \* main: the zh_cn.json files written, by path
          snbt_file,      \* main: the directory and content of zh_cn.snbt
          error           \* main: the exception that ended the run, if any

translateVars == <<translations, keys, values>>
saveVars      == <<zh_cn_dict, source_json, source_keys_set, file_out>>
descVars      == <<origin_en_us, snbt_dict>>
nbtVars       == <<nbtlib, json_data, nbt_data, formatted_snbt_string>>

mainVars      == <<source_files, file_path_list, cursor, zh_cn_list, ftbquests_dict,
                   lang_files, snbt_file, error>>

vars == <<pc, translateVars, saveVars, descVars, nbtVars, mainVars>>

----------------------------------------------------------------------------
(* Bounds of the model.                                                     *)

MaxItems   == 2     \* items fetched for one file
MaxEntries == 2     \* keys of the dictionary given to save_translation
MaxSource  == 2     \* keys of an en_us.json
MaxDocKeys == 3     \* keys of a quest-text document
MaxInner   == 2     \* elements of a nested list
MaxTop     == 2     \* entries of the outermost mapping or list
MaxFiles   == 2     \* files of the Paratranz project

----------------------------------------------------------------------------
(* Strings and ordered dictionaries.                                        *)

Range(s) == {s[i] : i \in 1..Len(s)}

SeqsUpTo(S, n) == UNION {[1..m -> S] : m \in 0..n}

\* str.startswith
StartsWith(s, p) == Len(p) <= Len(s) /\ SubSeq(s, 1, Len(p)) = p

\* the `in` operator on two strings
Contains(s, sub) ==
    \E i \in 1..(Len(s) - Len(sub) + 1) : SubSeq(s, i, i + Len(sub) - 1) = sub

DictKeys(d) == [i \in 1..Len(d) |-> d[i].k]

HasKey(d, key) == \E i \in 1..Len(d) : d[i].k = key

DictGet(d, key) == d[CHOOSE i \in 1..Len(d) : d[i].k = key].v

\* d[key] = value : overwrite in place, or append a new last key
DictSet(d, key, value) ==
    IF HasKey(d, key)
    THEN [i \in 1..Len(d) |-> IF d[i].k = key THEN [k |-> key, v |-> value] ELSE d[i]]
    ELSE Append(d, [k |-> key, v |-> value])

----------------------------------------------------------------------------
(* translate(): the value-selection loop over the fetched items.            *)

\* item.get(field, "")
ItemGet(field) == IF field = <<>> THEN "" ELSE field[1]

StageList == {0, -1, 2}

\* the stage list without 2
translate_value_no2(item) ==
    LET translation == ItemGet(item.translation)
        original    == ItemGet(item.original)
    IN  IF item.stage \in {0, -1} \/ translation = "" THEN original ELSE translation

translate_value(item) ==
    LET translation == ItemGet(item.translation)
        original    == ItemGet(item.original)
    IN  IF item.stage \in StageList \/ translation = "" THEN original ELSE translation

translate_keys(items) == [i \in 1..Len(items) |-> items[i].key]

translate_values(items) == [i \in 1..Len(items) |-> translate_value(items[i])]

----------------------------------------------------------------------------
(* save_translation(): key correction against en_us.json.                   *)

\* c * n
RECURSIVE Rep(_, _)
Rep(c, n) ==
    IF n = 0 THEN ""
    ELSE LET h == Rep(c, n \div 2) IN IF n % 2 = 0 THEN h \o h ELSE h \o h \o c

TruncLen == 255

\* Code points of the characters the model's keys are written with, ascending.
CodePoints == ".0123456789_abcdefghijklmnopqrstuvwxyz"

Ord(c) == CHOOSE i \in 1..Len(CodePoints) : SubSeq(CodePoints, i, i) = c

\* a < b for Python strings: the first differing code point decides
StrLess(a, b) ==
    LET n     == IF Len(a) < Len(b) THEN Len(a) ELSE Len(b)
        diffs == {i \in 1..n : SubSeq(a, i, i) # SubSeq(b, i, i)}
    IN  IF diffs = {} THEN Len(a) < Len(b)
        ELSE LET i == CHOOSE d \in diffs : \A e \in diffs : d <= e
             IN  Ord(SubSeq(a, i, i)) < Ord(SubSeq(b, i, i))

\* sorted(zh_cn_dict.keys())
RECURSIVE SortedKeys(_)
SortedKeys(ks) ==
    IF ks = {} THEN <<>>
    ELSE LET m == CHOOSE x \in ks : \A y \in ks \ {x} : StrLess(x, y)
         IN  <<m>> \o SortedKeys(ks \ {m})

\* lines 88-97: the directly matching keys, in the order of zh_cn_dict
RECURSIVE corrected_direct(_, _)
corrected_direct(zh, src) ==
    IF zh = <<>> THEN <<>>
    ELSE LET rest == corrected_direct(SubSeq(zh, 1, Len(zh) - 1), src)
             last == zh[Len(zh)]
         IN  IF HasKey(src, last.k) THEN DictSet(rest, last.k, last.v) ELSE rest

\* lines 89-97: the keys with no direct match, in the order of zh_cn_dict
unmatched_paratranz_keys(zh, src) ==
    SelectSeq(DictKeys(zh), LAMBDA k : ~HasKey(src, k))

\* lines 104-110: the source key a truncated key is bound to, iterating the
\* key set in the order `order`; <<>> when found_match stays False
\* a prefix match taken only for keys shorter than the limit
find_match_short(pt_key, order) ==
    IF Len(pt_key) < TruncLen /\ \E i \in 1..Len(order) : StartsWith(order[i], pt_key)
    THEN <<order[CHOOSE i \in 1..Len(order) : StartsWith(order[i], pt_key)]>>
    ELSE <<>>

\* a prefix match taken whatever the length of the key
find_match_any_length(pt_key, order) ==
    IF \E i \in 1..Len(order) : StartsWith(order[i], pt_key)
    THEN <<order[CHOOSE i \in 1..Len(order) :
                    /\ StartsWith(order[i], pt_key)
                    /\ \A j \in 1..(i - 1) : ~StartsWith(order[j], pt_key)]>>
    ELSE <<>>

find_match(pt_key, order) ==
    IF Len(pt_key) = TruncLen /\ \E i \in 1..Len(order) : StartsWith(order[i], pt_key)
    THEN <<order[CHOOSE i \in 1..Len(order) :
                    /\ StartsWith(order[i], pt_key)
                    /\ \A j \in 1..(i - 1) : ~StartsWith(order[j], pt_key)]>>
    ELSE <<>>

\* lines 101-113: the loop over the unmatched keys
RECURSIVE corrected_truncated(_, _, _, _)
corrected_truncated(corrected, unmatched, zh, order) ==
    IF unmatched = <<>> THEN corrected
    ELSE LET pt_key == Head(unmatched)
             m      == find_match(pt_key, order)
             next   == IF m = <<>> THEN corrected
                       ELSE DictSet(corrected, m[1], DictGet(zh, pt_key))
         IN  corrected_truncated(next, Tail(unmatched), zh, order)

corrected_zh_cn_dict(zh, src, order) ==
    corrected_truncated(corrected_direct(zh, src),
                        unmatched_paratranz_keys(zh, src), zh, order)

\* the corrected dictionary dumped as it is
final_json_object_corrected_only(corrected, src) == corrected

\* a missing translation left empty instead of taking the source text
final_json_object_no_fallback(corrected, src) ==
    [i \in 1..Len(src) |->
        [k |-> src[i].k,
         v |-> IF HasKey(corrected, src[i].k) THEN DictGet(corrected, src[i].k)
               ELSE ""]]

\* lines 116-119: one entry per source key, in source order
final_json_object(corrected, src) ==
    [i \in 1..Len(src) |->
        [k |-> src[i].k,
         v |-> IF HasKey(corrected, src[i].k) THEN DictGet(corrected, src[i].k)
               ELSE src[i].v]]

\* lines 128: the fallback when en_us.json cannot be opened
sorted_dict(zh) ==
    LET ks == SortedKeys(Range(DictKeys(zh)))
    IN  [i \in 1..Len(ks) |-> [k |-> ks[i], v |-> DictGet(zh, ks[i])]]

\* The document json.dump writes.  source is [exists, doc]; order is the
\* iteration order of set(source_json.keys()).
save_translation(zh, source, order) ==
    IF source.exists
    THEN final_json_object(corrected_zh_cn_dict(zh, source.doc, order), source.doc)
    ELSE sorted_dict(zh)

\* the orders in which a set of keys can be iterated
Orders(ks) == {o \in [1..Cardinality(ks) -> ks] : Range(o) = ks}

----------------------------------------------------------------------------
(* Python values of more than one type, as they occur in a loaded JSON      *)
(* document, carry their type: t is "str", "int", "float", "bool", "none", *)
(* "list" or "dict".  Ok and Err are the two outcomes of a call that may     *)
(* raise.                                                                   *)

Str(s)    == [t |-> "str", s |-> s]
IntV(n)   == [t |-> "int", n |-> n]
FloatV    == [t |-> "float"]
BoolV(b)  == [t |-> "bool", b |-> b]
NoneV     == [t |-> "none"]
ListV(xs) == [t |-> "list", items |-> xs]
DictV(d)  == [t |-> "dict", items |-> d]

Ok(v)  == [ok |-> TRUE, val |-> v]
Err(e) == [ok |-> FALSE, err |-> e]

\* the outcome of evaluating the elements rs in order: the first error, or all values
AllOk(rs) == \A i \in 1..Len(rs) : rs[i].ok
FirstErr(rs) == rs[CHOOSE i \in 1..Len(rs) : ~rs[i].ok /\ \A j \in 1..(i - 1) : rs[j].ok]
Vals(rs) == [i \in 1..Len(rs) |-> rs[i].val]

\* index of the first occurrence of sub in s (s.find(sub) + 1), sub occurring in s
Find(s, sub) ==
    CHOOSE i \in 1..(Len(s) - Len(sub) + 1) :
        /\ SubSeq(s, i, i + Len(sub) - 1) = sub
        /\ \A j \in 1..(i - 1) : SubSeq(s, j, j + Len(sub) - 1) # sub

\* s.replace(old, new)
RECURSIVE Replace(_, _, _)
Replace(s, old, new) ==
    IF ~Contains(s, old) THEN s
    ELSE LET i == Find(s, old)
         IN  SubSeq(s, 1, i - 1) \o new
                 \o Replace(SubSeq(s, i + Len(old), Len(s)), old, new)

\* s.split(sep)
RECURSIVE Split(_, _)
Split(s, sep) ==
    IF ~Contains(s, sep) THEN <<s>>
    ELSE LET i == Find(s, sep)
         IN  <<SubSeq(s, 1, i - 1)>> \o Split(SubSeq(s, i + Len(sep), Len(s)), sep)

----------------------------------------------------------------------------
(* normal_json2_ftb_desc(): the quest descriptions gathered into arrays.    *)

\* json.dumps of the characters of a string (ensure_ascii=False)
JsonEscape(s) == Replace(Replace(Replace(s, "\\", "\\\\"), "\"", "\\\""), "\n", "\\n")

\* the characters a Python string literal with these contents denotes
RECURSIVE PyUnescape(_)
PyUnescape(lit) ==
    IF lit = "" THEN ""
    ELSE IF SubSeq(lit, 1, 1) = "\\" /\ Len(lit) >= 2
    THEN (IF SubSeq(lit, 2, 2) = "n" THEN "\n" ELSE SubSeq(lit, 2, 2))
             \o PyUnescape(SubSeq(lit, 3, Len(lit)))
    ELSE SubSeq(lit, 1, 1) \o PyUnescape(Tail(lit))

\* lines 223-224: eval() of the JSON text of a value.  The JSON literals true,
\* false and null are no Python names.
RECURSIVE eval_json_dumps(_)
eval_json_dumps(v) ==
    CASE v.t = "str" -> Ok(Str(PyUnescape(JsonEscape(v.s))))
      [] v.t \in {"int", "float"} -> Ok(v)
      [] v.t \in {"bool", "none"} -> Err("NameError")
      [] v.t = "list" ->
            LET rs == [i \in 1..Len(v.items) |-> eval_json_dumps(v.items[i])]
            IN  IF AllOk(rs) THEN Ok(ListV(Vals(rs))) ELSE FirstErr(rs)
      [] v.t = "dict" ->
            LET rs == [i \in 1..Len(v.items) |-> eval_json_dumps(v.items[i].v)]
            IN  IF AllOk(rs)
                THEN Ok(DictV([i \in 1..Len(rs) |-> [k |-> v.items[i].k, v |-> rs[i].val]]))
                ELSE FirstErr(rs)

\* line 229
key_id(key) == Split(key, ".")[2]

\* lines 230-233
temp_json_array(en_json, id) ==
    LET hits == SelectSeq(en_json, LAMBDA e : Contains(e.k, id \o ".quest_desc"))
    IN  [i \in 1..Len(hits) |-> hits[i].v]

\* line 234
new_key(id) == "quest." \o id \o ".quest_desc"

\* lines 226-236: temp_en_json after the loop over the keys ks
RECURSIVE temp_en_json(_, _)
temp_en_json(en_json, ks) ==
    IF ks = <<>> THEN <<>>
    ELSE LET rest == temp_en_json(en_json, SubSeq(ks, 1, Len(ks) - 1))
             key  == ks[Len(ks)]
         IN  IF Contains(key, "desc")
             THEN DictSet(rest, new_key(key_id(key)),
                          ListV(temp_json_array(en_json, key_id(key))))
             ELSE rest

\* the keys of temp_set left in place
pop_temp_set_nothing(en_json) == en_json

\* lines 237-238
pop_temp_set(en_json) == SelectSeq(en_json, LAMBDA e : ~Contains(e.k, "desc"))

\* dict.update
RECURSIVE DictUpdate(_, _)
DictUpdate(d, other) ==
    IF other = <<>> THEN d
    ELSE DictUpdate(DictSet(d, Head(other).k, Head(other).v), Tail(other))

normal_json2_ftb_desc(origin) ==
    LET copy == eval_json_dumps(DictV(origin))
    IN  IF ~copy.ok THEN copy
        ELSE LET en_json == copy.val.items
             IN  IF \E i \in 1..Len(en_json) :
                        Contains(en_json[i].k, "desc") /\ Len(Split(en_json[i].k, ".")) < 2
                 THEN Err("IndexError")
                 ELSE Ok(DictUpdate(pop_temp_set(en_json),
                                    temp_en_json(en_json, DictKeys(en_json))))

----------------------------------------------------------------------------
(* json_to_nbt(), format_snbt() and escape_quotes().                        *)
(*                                                                         *)
(* The tag classes come from the nbtlib package, which the script imports   *)
(* and which is not part of the repository.  Two of its behaviours decide   *)
(* what the script does with values other than strings, and both differ    *)
(* between releases of the package; the variable nbtlib holds the one the   *)
(* installed release has:                                                   *)
(*   strict_list  List[String](...) raises for an element that is no String *)
(*                tag, instead of keeping it                                *)
(*   int_repr     str() of an Int tag is its repr, Int(5), instead of 5      *)
(***************************************************************************)

StringTag(s)   == [tag |-> "String", s |-> s]
IntTag(n)      == [tag |-> "Int", n |-> n]
CompoundTag(d) == [tag |-> "Compound", items |-> d]
ListTag(xs)    == [tag |-> "List", items |-> xs]

Libraries == [strict_list : BOOLEAN, int_repr : BOOLEAN]

\* line 178: nbtlib.tag.List[nbtlib.tag.String](items)
list_of_string(items, lib) ==
    IF lib.strict_list /\ \E i \in 1..Len(items) : items[i].tag # "String"
    THEN Err("IncompatibleItemType")
    ELSE Ok(ListTag(items))

\* lines 174-184.  A Python bool is an instance of int.
RECURSIVE json_to_nbt(_, _)
json_to_nbt(data, lib) ==
    CASE data.t = "dict" ->
            LET rs == [i \in 1..Len(data.items) |-> json_to_nbt(data.items[i].v, lib)]
            IN  IF AllOk(rs)
                THEN Ok(CompoundTag([i \in 1..Len(rs) |->
                                        [k |-> data.items[i].k, v |-> rs[i].val]]))
                ELSE FirstErr(rs)
      [] data.t = "list" ->
            LET rs == [i \in 1..Len(data.items) |-> json_to_nbt(data.items[i], lib)]
            IN  IF AllOk(rs) THEN list_of_string(Vals(rs), lib) ELSE FirstErr(rs)
      [] data.t = "str" -> Ok(StringTag(data.s))
      [] data.t = "int" -> Ok(IntTag(data.n))
      [] data.t = "bool" -> Ok(IntTag(IF data.b THEN 1 ELSE 0))
      [] OTHER -> Err("ValueError")

\* the decimal digits of an integer
RECURSIVE Digits(_)
Digits(n) ==
    IF n < 10 THEN SubSeq("0123456789", n + 1, n + 1)
    ELSE Digits(n \div 10) \o SubSeq("0123456789", (n % 10) + 1, (n % 10) + 1)

Decimal(n) == IF n < 0 THEN "-" \o Digits(0 - n) ELSE Digits(n)

\* line 208: str() of a String or Int tag
tag_str(nbt, lib) ==
    IF nbt.tag = "String" THEN nbt.s
    ELSE IF lib.int_repr THEN "Int(" \o Decimal(nbt.n) \o ")"
    ELSE Decimal(nbt.n)

INDENT_SIZE == 4

\* the concatenation of a sequence of sequences
RECURSIVE Join2(_)
Join2(parts) == IF parts = <<>> THEN <<>> ELSE Head(parts) \o Join2(Tail(parts))

\* ''.join(parts)
RECURSIVE Join(_)
Join(parts) == IF parts = <<>> THEN "" ELSE Head(parts) \o Join(Tail(parts))

\* a scalar written without the quotes
format_scalar_bare(nbt, lib) == tag_str(nbt, lib)

\* line 208
format_scalar(nbt, lib) == "\"" \o tag_str(nbt, lib) \o "\""

\* lines 188-208
RECURSIVE format_snbt(_, _, _)
format_snbt(nbt, indent, lib) ==
    LET indent_str == Rep(" ", indent)
    IN  CASE nbt.tag = "Compound" ->
                "{" \o Join([i \in 1..Len(nbt.items) |->
                              "\n" \o indent_str \o Rep(" ", INDENT_SIZE)
                                  \o nbt.items[i].k \o ":"
                                  \o format_snbt(nbt.items[i].v, indent + INDENT_SIZE, lib)])
                    \o "\n" \o indent_str \o "}"
          [] nbt.tag = "List" ->
                "[" \o Join([i \in 1..Len(nbt.items) |->
                              "\n" \o indent_str \o Rep(" ", INDENT_SIZE)
                                  \o format_snbt(nbt.items[i], indent + INDENT_SIZE, lib)])
                    \o "\n" \o indent_str \o "]"
          [] OTHER -> format_scalar(nbt, lib)

\* lines 211-219
RECURSIVE escape_quotes(_)
escape_quotes(data) ==
    CASE data.t = "dict" ->
            DictV([i \in 1..Len(data.items) |->
                      [k |-> data.items[i].k, v |-> escape_quotes(data.items[i].v)]])
      [] data.t = "list" ->
            ListV([i \in 1..Len(data.items) |-> escape_quotes(data.items[i])])
      [] data.t = "str" -> Str(Replace(data.s, "\"", "\\\""))
      [] OTHER -> data

----------------------------------------------------------------------------
(* process_translation() and the path arithmetic of save_translation().     *)
(* In the model's texts "#" stands for a CJK ideograph (U+4E00..U+9FFF) and  *)
(* "~" for the no-break space U+00A0.                                       *)

EndsWith(s, suffix) ==
    Len(suffix) <= Len(s) /\ SubSeq(s, Len(s) - Len(suffix) + 1, Len(s)) = suffix

Uppers == "ABCDEFGHIJKLMNOPQRSTUVWXYZ"
Lowers == "abcdefghijklmnopqrstuvwxyz"

\* str.lower
RECURSIVE Lower(_)
Lower(s) ==
    IF s = "" THEN ""
    ELSE LET c == SubSeq(s, 1, 1)
         IN  (IF Contains(Uppers, c)
              THEN SubSeq(Lowers, Find(Uppers, c), Find(Uppers, c)) ELSE c)
                 \o Lower(Tail(s))

\* sep.join(parts)
RECURSIVE JoinWith(_, _)
JoinWith(parts, sep) ==
    IF parts = <<>> THEN ""
    ELSE IF Len(parts) = 1 THEN parts[1]
    ELSE parts[1] \o sep \o JoinWith(Tail(parts), sep)

\* Path(path).name and str(Path(path).parent)
path_name(path) == LET segs == Split(path, "/") IN segs[Len(segs)]
path_parent(path) ==
    LET segs == Split(path, "/")
    IN  IF Len(segs) = 1 THEN "." ELSE JoinWith(SubSeq(segs, 1, Len(segs) - 1), "/")

\* lines 74-77
file_path(path) ==
    LET dir_path == IF path_parent(path) = "." THEN "CNPack"
                    ELSE "CNPack/" \o path_parent(path)
    IN  Replace(dir_path, "CNPack", "CNPack/assets/vm/lang") \o "/zh_cn.json"

\* line 78
source_path(path) ==
    Replace(Replace(file_path(path), "zh_cn.json", "en_us.json"), "CNPack", "Source")

NoDoc == [exists |-> FALSE, doc |-> <<>>]

\* open(name) and json.load: the document, or IOError
read_json(files, name) ==
    IF HasKey(files, name) THEN [exists |-> TRUE, doc |-> DictGet(files, name)] ELSE NoDoc

has_cjk(value) == Contains(value, "#")

\* lines 151-156
normalized(value) ==
    LET v1 == Replace(value, "\\\\", "\\")
        v2 == Replace(v1, "\\n", "\n")
    IN  IF has_cjk(v2) THEN Replace(v2, " ", "~") ELSE v2

\* line 167
ftbquest_value(value) ==
    IF ~Contains(value, "image") /\ has_cjk(value) THEN Replace(value, " ", "~") ELSE value

\* lines 149-159 and 165-169: zip(keys, values) written into the dictionary d
RECURSIVE zip_into(_, _, _)
zip_into(d, ks, vs) ==
    IF ks = <<>> \/ vs = <<>> THEN d
    ELSE zip_into(DictSet(d, Head(ks), Str(Head(vs))), Tail(ks), Tail(vs))

\* lines 140-170, on the items fetched by translate()
process_translation(items, files, path) ==
    LET ks   == translate_keys(items)
        vs   == translate_values(items)
        base == read_json(files, "Source/" \o path).doc
    IN  IF Contains(path_name(path), "ftbquest")
        THEN zip_into(<<>>, ks, [i \in 1..Len(vs) |-> ftbquest_value(vs[i])])
        ELSE zip_into(base, ks, [i \in 1..Len(vs) |-> normalized(vs[i])])

\* line 250
skipped(path) == ~EndsWith(Lower(path), "en_us.json") \/ Contains(path, "TM")

\* line 257
is_quest_lang(path) == Contains(path, "kubejs/assets/quests/lang/")

\* line 258: ftbquests_dict | zh_cn_dict
dict_or(a, b) == DictUpdate(a, b)

\* the output file opened, and so emptied, before the conversion
snbt_file_opened_first(snbt) ==
    IF snbt.dir THEN [dir |-> TRUE, content |-> <<"">>] ELSE snbt

\* lines 268-274: json_to_nbt raises before zh_cn.snbt is opened
snbt_file_on_raise(snbt) == snbt

\* the for loop of main has run off the end of the list
loop_finished(n, files) == n > Len(files)

----------------------------------------------------------------------------
(* Inputs.                                                                  *)

Pad253 == Rep("k", 253)
Cut255 == Pad253 \o "ab"        \* a key cut to 255 characters by Paratranz
Full1  == Cut255 \o "c"         \* a source key of 256 characters
Full2  == Cut255 \o "d"         \* another one with the same first 255
Near254 == Pad253 \o "a"        \* a proper prefix that is not 255 long

Stages     == {-1, 0, 1, 2, 3}
OptTexts   == {<<>>, <<"">>, <<"t">>}
OptOrigs   == {<<>>, <<"o">>}
Items      == [key : {"a", "b"}, stage : Stages, translation : OptTexts, original : OptOrigs]

Texts      == {"u", "v"}
EntryKeys  == {"a", Near254, Cut255, Full1}
SourceKeys == {"a", "ab", Cut255, Full1, Full2}

\* the dictionaries of at most n keys of ks with values in vs
Dicts(ks, vs, n) ==
    LET keySeqs == {q \in SeqsUpTo(ks, n) : \A i, j \in 1..Len(q) : q[i] = q[j] => i = j}
    IN  UNION {{[i \in 1..Len(q) |-> [k |-> q[i], v |-> w[i]]] : w \in [1..Len(q) -> vs]}
               : q \in keySeqs}


DescKeys == {"quest.1.desc", "quest.1.quest_desc.0", "quest.1.quest_desc.1",
             "quest.11.quest_desc.0", "quest.1.title", "desc"}
DescTexts == {Str("A"), Str("B"), Str("say \"hi\"\\n")}

Scalars     == {Str("x"), Str("y"), IntV(1), FloatV, BoolV(TRUE), NoneV}
ListScalars == {Str("x"), Str("y"), IntV(1)}
NbtInner ==
    Scalars
    \cup {ListV(xs) : xs \in SeqsUpTo(ListScalars, MaxInner)}
    \cup {DictV(d) : d \in Dicts({"c"}, ListScalars, 1)}
QuestLang   == "kubejs/assets/quests/lang/en_us.json"
QuestChapter == "kubejs/assets/quests/lang/ftbquest_en_us.json"
PlainLang   == "lang/EN_US.json"
Paths       == {QuestLang, QuestChapter, PlainLang, "TM/en_us.json", "readme.md"}

Item(key, stage, translation, original) ==
    [key |-> key, stage |-> stage, translation |-> <<translation>>, original |-> <<original>>]

\* what the translation service answers for a file
Fetched ==
    { <<Item("quest.1.desc", 1, "# d", "D d"),
        Item("quest.1.quest_desc.0", 1, "say \"hi\"\\n#", "L")>>,
      <<Item("a", 0, "", "A b"), Item("b", 3, "image # b", "B")>> }

\* the trees of documents under Source/, as dictionaries from path to document
SourceTrees ==
    { <<>>,
      <<[k |-> source_path(QuestLang),
         v |-> <<[k |-> "quest.1.title", v |-> Str("T")],
                 [k |-> "quest.1.desc", v |-> Str("D")]>>],
        [k |-> source_path(PlainLang),
         v |-> <<[k |-> "b", v |-> Str("B")], [k |-> "a", v |-> Str("A")]>>]>>,
      <<[k |-> "Source/" \o QuestLang,
         v |-> <<[k |-> "n", v |-> FloatV], [k |-> "quest.1.title", v |-> Str("T")]>>]>>,
      <<[k |-> "Source/" \o QuestLang,
         v |-> <<[k |-> "desc", v |-> Str("x")]>>],
        [k |-> "Source/" \o PlainLang,
         v |-> <<[k |-> "ok", v |-> BoolV(TRUE)]>>]>> }

NestedElems ==
    {Str("x"), IntV(1), NoneV, ListV(<<Str("x")>>), DictV(<<[k |-> "c", v |-> Str("x")]>>)}
NbtData ==
    NbtInner
    \cup {ListV(xs) : xs \in SeqsUpTo(NestedElems, MaxTop)}
    \cup {DictV(d) : d \in Dicts({"a", "b"}, NbtInner, MaxTop)}

----------------------------------------------------------------------------
(* Specification of translate().                                            *)

IdleSave ==
    zh_cn_dict = <<>> /\ source_json = NoDoc /\ source_keys_set = <<>> /\ file_out = <<>>
IdleTranslate == translations = <<>> /\ keys = <<>> /\ values = <<>>
IdleDesc == origin_en_us = <<>> /\ snbt_dict = <<>>
IdleNbt ==
    /\ nbtlib = [strict_list |-> FALSE, int_repr |-> FALSE]
    /\ json_data = <<>> /\ nbt_data = <<>> /\ formatted_snbt_string = ""
IdleMain ==
    /\ source_files = <<>> /\ file_path_list = <<>> /\ cursor = 0
    /\ zh_cn_list = <<>> /\ ftbquests_dict = <<>> /\ lang_files = <<>>
    /\ snbt_file = [dir |-> FALSE, content |-> <<>>] /\ error = ""

InitTranslate ==
    /\ pc = "translate"
    /\ translations \in SeqsUpTo(Items, MaxItems)
    /\ keys = <<>> /\ values = <<>>
    /\ IdleSave /\ IdleDesc /\ IdleNbt /\ IdleMain

Translate ==
    /\ pc = "translate"
    /\ keys' = translate_keys(translations)
    /\ values' = translate_values(translations)
    /\ pc' = "translated"
    /\ UNCHANGED <<translations, saveVars, descVars, nbtVars, mainVars>>

SpecTranslate == InitTranslate /\ [][Translate]_vars

----------------------------------------------------------------------------
(* Specification of save_translation().                                     *)

InitSave ==
    /\ pc = "save_translation"
    /\ zh_cn_dict \in Dicts(EntryKeys, Texts, MaxEntries)
    /\ source_json \in {NoDoc} \cup
           {[exists |-> TRUE, doc |-> d] : d \in Dicts(SourceKeys, Texts, MaxSource)}
    /\ source_keys_set = <<>>
    /\ file_out = <<>>
    /\ IdleTranslate /\ IdleDesc /\ IdleNbt /\ IdleMain

SaveTranslation ==
    /\ pc = "save_translation"
    /\ \E order \in Orders(Range(DictKeys(source_json.doc))) :
          /\ source_keys_set' = order
          /\ file_out' = save_translation(zh_cn_dict, source_json, order)
    /\ pc' = "saved"
    /\ UNCHANGED <<zh_cn_dict, source_json, translateVars, descVars, nbtVars, mainVars>>

SpecSave == InitSave /\ [][SaveTranslation]_vars

----------------------------------------------------------------------------
(* Specification of normal_json2_ftb_desc().                                *)

InitDesc ==
    /\ pc = "normal_json2_ftb_desc"
    /\ origin_en_us \in Dicts(DescKeys, DescTexts, MaxDocKeys)
    /\ snbt_dict = <<>>
    /\ IdleTranslate /\ IdleSave /\ IdleNbt /\ IdleMain

NormalJson2FtbDesc ==
    /\ pc = "normal_json2_ftb_desc"
    /\ snbt_dict' = normal_json2_ftb_desc(origin_en_us)
    /\ pc' = IF snbt_dict'.ok THEN "desc_end" ELSE "desc_raised"
    /\ UNCHANGED <<origin_en_us, translateVars, saveVars, nbtVars, mainVars>>

SpecDesc == InitDesc /\ [][NormalJson2FtbDesc]_vars

----------------------------------------------------------------------------
(* Specification of json_to_nbt() followed by format_snbt().                *)

InitNbt ==
    /\ pc = "json_to_nbt"
    /\ nbtlib \in Libraries
    /\ json_data \in NbtData
    /\ nbt_data = <<>>
    /\ formatted_snbt_string = ""
    /\ IdleTranslate /\ IdleSave /\ IdleDesc /\ IdleMain

JsonToNbt ==
    /\ pc = "json_to_nbt"
    /\ nbt_data' = json_to_nbt(json_data, nbtlib)
    /\ pc' = IF nbt_data'.ok THEN "format_snbt" ELSE "nbt_raised"
    /\ UNCHANGED <<nbtlib, json_data, formatted_snbt_string, translateVars, saveVars,
                   descVars, mainVars>>

FormatSnbt ==
    /\ pc = "format_snbt"
    /\ formatted_snbt_string' = format_snbt(nbt_data.val, 0, nbtlib)
    /\ pc' = "formatted"
    /\ UNCHANGED <<nbtlib, json_data, nbt_data, translateVars, saveVars, descVars, mainVars>>

NextNbt == JsonToNbt \/ FormatSnbt

SpecNbt == InitNbt /\ [][NextNbt]_vars

----------------------------------------------------------------------------
(* Specification of main(): one run of the script.                          *)

Init ==
    /\ pc = "get_files"
    /\ source_files \in SourceTrees
    /\ nbtlib \in Libraries
    /\ snbt_file \in {[dir |-> FALSE, content |-> <<>>],
                       [dir |-> TRUE, content |-> <<"old">>]}
    /\ file_path_list = <<>> /\ cursor = 0
    /\ zh_cn_list = <<>> /\ ftbquests_dict = <<>> /\ lang_files = <<>>
    /\ error = ""
    /\ json_data = <<>> /\ nbt_data = <<>> /\ formatted_snbt_string = ""
    /\ IdleTranslate /\ IdleSave /\ IdleDesc

Raise(e) == pc' = "raised" /\ error' = e

\* line 246
GetFiles ==
    /\ pc = "get_files"
    /\ file_path_list' \in SeqsUpTo(Paths, MaxFiles)
    /\ cursor' = 1
    /\ pc' = "loop"
    /\ UNCHANGED <<source_files, zh_cn_list, ftbquests_dict, lang_files, snbt_file, error,
                   translateVars, saveVars, descVars, nbtVars>>

\* lines 25-26: raise_for_status in get_files or translate
FetchFails ==
    /\ \/ pc = "get_files"
       \/ /\ pc = "loop"
          /\ ~loop_finished(cursor, file_path_list)
          /\ ~skipped(file_path_list[cursor])
    /\ Raise("HTTPError")
    /\ UNCHANGED <<source_files, file_path_list, cursor, zh_cn_list, ftbquests_dict,
                   lang_files, snbt_file, translateVars, saveVars, descVars, nbtVars>>

\* lines 250-251
LoopSkip ==
    /\ pc = "loop"
    /\ ~loop_finished(cursor, file_path_list)
    /\ skipped(file_path_list[cursor])
    /\ cursor' = cursor + 1
    /\ UNCHANGED <<pc, source_files, file_path_list, zh_cn_list, ftbquests_dict,
                   lang_files, snbt_file, error, translateVars, saveVars, descVars, nbtVars>>

\* lines 253-261
LoopFile ==
    /\ pc = "loop"
    /\ ~loop_finished(cursor, file_path_list)
    /\ ~skipped(file_path_list[cursor])
    /\ \E items \in Fetched :
          LET path == file_path_list[cursor]
              zh   == process_translation(items, source_files, path)
              src  == read_json(source_files, source_path(path))
          IN  /\ zh_cn_dict' = zh
              /\ zh_cn_list' = Append(zh_cn_list, zh)
              /\ ftbquests_dict' = IF is_quest_lang(path) THEN dict_or(ftbquests_dict, zh)
                                    ELSE ftbquests_dict
              /\ \E order \in Orders(Range(DictKeys(src.doc))) :
                    lang_files' = DictSet(lang_files, file_path(path),
                                          save_translation(zh, src, order))
    /\ cursor' = cursor + 1
    /\ UNCHANGED <<pc, source_files, file_path_list, snbt_file, error, translateVars,
                   source_json, source_keys_set, file_out, descVars, nbtVars>>

\* lines 262-276
QuestStep ==
    /\ pc = "loop"
    /\ loop_finished(cursor, file_path_list)
    /\ IF Len(ftbquests_dict) = 0
       THEN /\ pc' = "done"
            /\ UNCHANGED <<snbt_dict, json_data, nbt_data, formatted_snbt_string,
                           snbt_file, error>>
       ELSE LET desc == normal_json2_ftb_desc(ftbquests_dict)
                esc  == escape_quotes(DictV(desc.val))
                nbt  == json_to_nbt(esc, nbtlib)
                text == format_snbt(nbt.val, 0, nbtlib)
            IN  IF ~desc.ok
                THEN /\ Raise(desc.err)
                     /\ UNCHANGED <<snbt_dict, json_data, nbt_data, formatted_snbt_string,
                                    snbt_file>>
                ELSE IF ~nbt.ok
                THEN /\ Raise(nbt.err)
                     /\ snbt_dict' = desc /\ json_data' = esc
                     /\ snbt_file' = snbt_file_on_raise(snbt_file)
                     /\ UNCHANGED <<nbt_data, formatted_snbt_string>>
                ELSE /\ pc' = "done"
                     /\ snbt_dict' = desc /\ json_data' = esc /\ nbt_data' = nbt
                     /\ formatted_snbt_string' = text
                     /\ snbt_file' = IF snbt_file.dir
                                     THEN [dir |-> TRUE, content |-> <<text>>]
                                     ELSE snbt_file
                     /\ error' = error
    /\ UNCHANGED <<source_files, file_path_list, cursor, zh_cn_list, ftbquests_dict,
                   lang_files, translateVars, saveVars, origin_en_us, nbtlib>>

Next == GetFiles \/ FetchFails \/ LoopSkip \/ LoopFile \/ QuestStep

Spec == Init /\ [][Next]_vars

----------------------------------------------------------------------------
(* Properties of translate().                                               *)

OriginalText(item) == IF item.original = <<>> THEN "" ELSE item.original[1]

NoTranslation(item) == item.translation = <<>> \/ item.translation = <<"">>

\* C2: the value chosen for an entry is its original text when its stage is
\* 0, -1 or 2 or its translation is absent or empty, and its translation in
\* every other case.
C2_ValueSelection ==
    pc = "translated" =>
        /\ Len(values) = Len(translations)
        /\ \A i \in 1..Len(translations) :
              LET item == translations[i]
              IN  IF item.stage \in {0, -1, 2} \/ NoTranslation(item)
                  THEN values[i] = OriginalText(item)
                  ELSE values[i] = item.translation[1]

C2_Witness ==
    /\ pc = "translated"
    /\ \E i, j \in 1..Len(translations) :
          /\ translations[i].stage = 2 /\ translations[i].translation = <<"t">>
          /\ translations[i].original = <<"o">> /\ values[i] = "o"
          /\ translations[j].stage = 1 /\ translations[j].translation = <<"t">>
          /\ values[j] = "t"

----------------------------------------------------------------------------
(* Properties of save_translation().                                        *)

Saved == pc = "saved" /\ source_json.exists

S == source_json.doc

\* C1: with a source key index, the written document has exactly the source
\* keys, in the source's order.
C1_KeysAndOrder == Saved => DictKeys(file_out) = DictKeys(S)

C1_Witness ==
    /\ Saved
    /\ Len(S) = 2
    /\ \E i \in 1..Len(zh_cn_dict) : ~HasKey(S, zh_cn_dict[i].k)
    /\ \E i \in 1..Len(zh_cn_dict) : HasKey(S, zh_cn_dict[i].k)
    /\ file_out # S

Prefix255(key) == SubSeq(key, 1, TruncLen)

OnlyKeyWithPrefix(key, p) ==
    \A i \in 1..Len(S) : StartsWith(S[i].k, p) => S[i].k = key

\* C3: a source key K longer than 255 characters whose first 255 characters
\* are the key of an entry, K being the only source key with that prefix,
\* gets that entry's value.
C3_TruncationRepair ==
    Saved =>
        \A i \in 1..Len(S) :
            LET K == S[i].k
            IN  (/\ Len(K) > TruncLen
                 /\ HasKey(zh_cn_dict, Prefix255(K))
                 /\ OnlyKeyWithPrefix(K, Prefix255(K)))
                => DictGet(file_out, K) = DictGet(zh_cn_dict, Prefix255(K))

C3_Witness ==
    /\ Saved
    /\ HasKey(S, Full1) /\ ~HasKey(S, Full2) /\ ~HasKey(S, Cut255)
    /\ HasKey(zh_cn_dict, Cut255)
    /\ DictGet(zh_cn_dict, Cut255) # DictGet(S, Full1)
    /\ DictGet(file_out, Full1) = DictGet(zh_cn_dict, Cut255)

\* the dictionary without the key at position i
Without(d, i) == SubSeq(d, 1, i - 1) \o SubSeq(d, i + 1, Len(d))

\* C4: an entry whose key is no source key and is not 255 characters long is
\* dropped: the written document is the one written without that entry.
C4_NonRepair ==
    Saved =>
        \A i \in 1..Len(zh_cn_dict) :
            (~HasKey(S, zh_cn_dict[i].k) /\ Len(zh_cn_dict[i].k) # TruncLen)
            => file_out = save_translation(Without(zh_cn_dict, i), source_json,
                                           source_keys_set)

C4_Witness ==
    /\ Saved
    /\ HasKey(zh_cn_dict, Near254) /\ HasKey(S, Full1)
    /\ StartsWith(Full1, Near254)
    /\ DictGet(zh_cn_dict, Near254) # DictGet(S, Full1)
    /\ DictGet(file_out, Full1) = DictGet(S, Full1)

\* entry key ek is the one the code matches with source key sk
Matches(ek, sk) ==
    \/ ek = sk
    \/ ~HasKey(S, ek) /\ Len(ek) = TruncLen /\ StartsWith(sk, ek)

\* C5: a source key with no matching entry keeps the source's own text.
C5_Fallback ==
    Saved =>
        \A i \in 1..Len(S) :
            (\A j \in 1..Len(zh_cn_dict) : ~Matches(zh_cn_dict[j].k, S[i].k))
            => DictGet(file_out, S[i].k) = S[i].v

C5_Witness ==
    /\ Saved
    /\ Len(S) = 2 /\ Len(zh_cn_dict) = 2
    /\ HasKey(S, Cut255) /\ HasKey(S, Full1)
    /\ HasKey(zh_cn_dict, Cut255) /\ ~HasKey(zh_cn_dict, Full1)
    /\ DictGet(zh_cn_dict, Cut255) # DictGet(S, Full1)
    /\ DictGet(file_out, Full1) = DictGet(S, Full1)

----------------------------------------------------------------------------
(* Properties of normal_json2_ftb_desc().                                   *)

DescEnd == pc = "desc_end"

\* the values of the keys of doc that contain sub, in document order
ValuesOfKeysContaining(doc, sub) ==
    LET hits == SelectSeq(doc, LAMBDA e : Contains(e.k, sub))
    IN  [i \in 1..Len(hits) |-> hits[i].v]

SecondSegment(key) == Split(key, ".")[2]

P6Example(doc) ==
    /\ DictKeys(doc) = <<"quest.1.desc", "quest.1.quest_desc.0", "quest.1.quest_desc.1">>
    /\ doc[2].v = Str("A") /\ doc[3].v = Str("B")

\* C6: every identifier taken from a key containing desc has exactly one key
\* quest.<id>.quest_desc in the result, holding the values of the keys that
\* contain <id>.quest_desc in document order; no key containing desc keeps a
\* scalar; the document quest.1.desc, quest.1.quest_desc.0 = A,
\* quest.1.quest_desc.1 = B becomes exactly quest.1.quest_desc = [A, B].
C6_Aggregation ==
    DescEnd =>
        LET out == snbt_dict.val
        IN  /\ \A i \in 1..Len(origin_en_us) :
                  Contains(origin_en_us[i].k, "desc") =>
                      LET id == SecondSegment(origin_en_us[i].k)
                          nk == "quest." \o id \o ".quest_desc"
                      IN  /\ Cardinality({j \in 1..Len(out) : out[j].k = nk}) = 1
                          /\ DictGet(out, nk) =
                                ListV(ValuesOfKeysContaining(origin_en_us, id \o ".quest_desc"))
            /\ \A j \in 1..Len(out) : Contains(out[j].k, "desc") => out[j].v.t = "list"
            /\ P6Example(origin_en_us) =>
                  out = <<[k |-> "quest.1.quest_desc", v |-> ListV(<<Str("A"), Str("B")>>)]>>

C6_Witness ==
    /\ DescEnd
    /\ P6Example(origin_en_us)
    /\ Len(snbt_dict.val) = 1

\* C10: the sequence stored under quest.<id>.quest_desc holds only values of
\* keys whose second dot-separated segment is exactly <id>.
C10_NoCrossQuest ==
    DescEnd =>
        \A i \in 1..Len(origin_en_us) :
            Contains(origin_en_us[i].k, "desc") =>
                LET id  == SecondSegment(origin_en_us[i].k)
                    seq == DictGet(snbt_dict.val, "quest." \o id \o ".quest_desc").items
                IN  \A n \in 1..Len(seq) :
                        \E j \in 1..Len(origin_en_us) :
                            /\ Len(Split(origin_en_us[j].k, ".")) >= 2
                            /\ SecondSegment(origin_en_us[j].k) = id
                            /\ origin_en_us[j].v = seq[n]

----------------------------------------------------------------------------
(* Properties of json_to_nbt() and format_snbt().                           *)

RECURSIVE HasUnsupportedScalar(_)
HasUnsupportedScalar(v) ==
    CASE v.t \in {"float", "bool", "none"} -> TRUE
      [] v.t = "list" -> \E i \in 1..Len(v.items) : HasUnsupportedScalar(v.items[i])
      [] v.t = "dict" -> \E i \in 1..Len(v.items) : HasUnsupportedScalar(v.items[i].v)
      [] OTHER -> FALSE

Converted == pc \in {"format_snbt", "nbt_raised", "formatted"}

\* C7: json_to_nbt raises its unsupported-type error for every float, boolean
\* and null, wherever it occurs in the value, and builds no tag for it.
C7_RejectsUnsupported ==
    (Converted /\ HasUnsupportedScalar(json_data)) =>
        (~nbt_data.ok /\ nbt_data.err = "ValueError")

P8Example ==
    DictV(<<[k |-> "a", v |-> IntV(1)],
            [k |-> "b", v |-> ListV(<<Str("x"), Str("y")>>)]>>)

Formatted == pc = "formatted"

RECURSIVE StringLists(_)
StringLists(v) ==
    CASE v.t \in {"str", "int"} -> TRUE
      [] v.t = "list" -> \A i \in 1..Len(v.items) : v.items[i].t = "str"
      [] v.t = "dict" -> \A i \in 1..Len(v.items) : StringLists(v.items[i].v)
      [] OTHER -> FALSE

\* the scalar leaves of a value, in order
RECURSIVE Leaves(_)
Leaves(v) ==
    CASE v.t = "list" -> Join2([i \in 1..Len(v.items) |-> Leaves(v.items[i])])
      [] v.t = "dict" -> Join2([i \in 1..Len(v.items) |-> Leaves(v.items[i].v)])
      [] OTHER -> <<v>>

\* the mapping keys of a value, in order
RECURSIVE KeysOf(_)
KeysOf(v) ==
    CASE v.t = "list" -> Join2([i \in 1..Len(v.items) |-> KeysOf(v.items[i])])
      [] v.t = "dict" ->
            Join2([i \in 1..Len(v.items) |-> <<v.items[i].k>> \o KeysOf(v.items[i].v)])
      [] OTHER -> <<>>

Lines == Split(formatted_snbt_string, "\n")

LeadingSpaces(line) ==
    CHOOSE n \in 0..Len(line) :
        /\ SubSeq(line, 1, n) = Rep(" ", n)
        /\ n < Len(line) => SubSeq(line, n + 1, n + 1) # " "

Stripped(line) == SubSeq(line, LeadingSpaces(line) + 1, Len(line))

HasKeyPrefix(line) == SubSeq(Stripped(line), 1, 1) # "\"" /\ Contains(Stripped(line), ":")

\* what follows the key and the colon, or the whole of a line without a key
Payload(line) ==
    IF HasKeyPrefix(line)
    THEN SubSeq(Stripped(line), Find(Stripped(line), ":") + 1, Len(Stripped(line)))
    ELSE Stripped(line)

LineKey(line) == SubSeq(Stripped(line), 1, Find(Stripped(line), ":") - 1)

IsOpener(t) == t \in {"{", "["}
IsCloser(t) == t \in {"}", "]"}
IsQuoted(t) ==
    Len(t) >= 2 /\ SubSeq(t, 1, 1) = "\"" /\ SubSeq(t, Len(t), Len(t)) = "\""

\* the nesting level of line i, given the payloads of all lines: blocks
\* opened and not closed before it
Level(payloads, i) ==
    Cardinality({j \in 1..(i - 1) : IsOpener(payloads[j])})
        - Cardinality({j \in 1..i : IsCloser(payloads[j])})

----------------------------------------------------------------------------
(* Properties of main().                                                    *)

TreeFailed == error = "ValueError"

AllWritten ==
    \A i \in 1..Len(file_path_list) :
        ~skipped(file_path_list[i]) => HasKey(lang_files, file_path(file_path_list[i]))

\* C9: when json_to_nbt raises, every localization document of the run has
\* been written already, and the failing step changes neither those
\* documents nor the quest-text file.
C9_FailureIsolated ==
    /\ [](TreeFailed => AllWritten)
    /\ [][(~TreeFailed /\ TreeFailed') =>
             (lang_files' = lang_files /\ snbt_file' = snbt_file)]_vars

C9_Witness ==
    /\ TreeFailed
    /\ pc = "raised"
    /\ Len(file_path_list) = 2
    /\ Len(lang_files) = 2
    /\ snbt_file.content = <<"old">>

====
